---- MODULE Spec2Model ----
(***************************************************************************)
(* State-machine model of virtinst/connection.py: VirtinstConnection, the  *)
(* facade over a libvirt connection with its object-list cache             *)
(* (_fetch_cache), feature-support cache (_support_cache) and memoized     *)
(* version numbers.                                                        *)
(***************************************************************************)
EXTENDS Integers, Sequences, FiniteSets, TLC

\* ------------------------------------------------------------------ bounds
MaxObjs == 1
MaxPools == 2
MaxHooks == 1
MaxCached == 2
MaxVersion == 2
NumKeys == 2
MaxFeatures == 2

\* ------------------------------------------------------- program constants
_FETCH_KEY_DOMAINS == "vms"
_FETCH_KEY_POOLS == "pools"
_FETCH_KEY_VOLS == "vols"
_FETCH_KEY_NODEDEVS == "nodedevs"

FetchKeys == {_FETCH_KEY_DOMAINS, _FETCH_KEY_POOLS, _FETCH_KEY_VOLS, _FETCH_KEY_NODEDEVS}

\* The five override attributes of the facade (cb_*), by name.
Hooks == {"cb_fetch_all_domains", "cb_fetch_all_pools", "cb_fetch_all_vols",
          "cb_fetch_all_nodedevs", "cb_cache_new_pool"}

\* Python's None, for string-valued and for integer-valued attributes.
NoneStr == "None"

\* ------------------------------------------------------------- the remote
\* A remote listing of n objects: handles 1..n in listing order.
Listing(n) == [i \in 1..n |-> i]

Pools == 1..MaxPools

\* The remote's volumes, each identified by <<pool, index>>: pool 1 holds two,
\* every other pool one.
VolsOf(p) == IF p = 1 THEN << <<1, 1>>, <<1, 2>> >> ELSE << <<p, 1>> >>

\* What the remote answers for a pool when it is looked up by name.
PoolStates == {"running", "inactive", "gone"}

VARIABLES
    _open_uri, _uri, _uriobj, _magic_uri,
    _fake_conn_predictable, _fake_conn_remote, _fake_conn_session,
    _fake_conn_version, _fake_libvirt_version,
    _daemon_version, _conn_version,
    _libvirtconn, _caps,
    _support_cache, _fetch_cache,
    cbs,
    remote_version,
    last, window, since_close, pool_override, version_calls, evaluated, caps_calls

identity == <<_open_uri, _magic_uri, _fake_conn_predictable, _fake_conn_remote,
              _fake_conn_session, _fake_conn_version, _fake_libvirt_version>>

\* The flags the resolver derives from the address at construction.
flags == <<_fake_conn_predictable, _fake_conn_remote, _fake_conn_session,
           _fake_conn_version, _fake_libvirt_version>>

negotiation == <<_daemon_version, _conn_version, _caps, _support_cache,
                 remote_version>>

vars == <<_open_uri, _uri, _uriobj, _magic_uri,
          _fake_conn_predictable, _fake_conn_remote, _fake_conn_session,
          _fake_conn_version, _fake_libvirt_version,
          _daemon_version, _conn_version,
          _libvirtconn, _caps,
          _support_cache, _fetch_cache,
          cbs,
          remote_version,
          last, window, since_close, pool_override, version_calls, evaluated, caps_calls>>

\* --------------------------------------------------------------- helpers
EmptyCache == [k \in {} |-> <<>>]

\* d[k] = v on a Python dict.
Put(d, k, v) == [x \in (DOMAIN d) \cup {k} |-> IF x = k THEN v ELSE d[x]]

NoneVer == -1

\* Inputs an operation does not consult are pinned to one value.
Unused(consulted, x, default) == consulted \/ x = default

\* util.local_libvirt_version(): the process-wide version of the client library.
LocalLibvirtVersion == 2

\* ------------------------------------------------------ endpoint resolver
MagicPredictable == "__virtinst_test__test:///default,predictable"
MagicRemote == "__virtinst_test__test:///default,qemu,remote,session"
MagicVersions == "__virtinst_test__test:///default,libver=1,connver=3"

InputURIs == {"", "qemu:///system", "qemu+ssh://host/system",
              MagicPredictable, MagicRemote, MagicVersions}

\* MagicURI.uri_is_magic
uri_is_magic(u) == u \in {MagicPredictable, MagicRemote, MagicVersions}

\* MagicURI(u): the resolved target and behavioural flags of a synthetic address.
MagicURI(u) ==
    [open_uri |-> "test:///default",
     fake_uri |-> IF u = MagicRemote THEN "qemu+tls:///system" ELSE "test:///default",
     predictable |-> (u = MagicPredictable),
     remote |-> (u = MagicRemote),
     session |-> (u = MagicRemote),
     conn_version |-> IF u = MagicVersions THEN 3 ELSE NoneVer,
     libvirt_version |-> IF u = MagicVersions THEN 1 ELSE NoneVer]

\* URI(u).hostname: the host part of an address ("" when it has none).
Hostname(u) == IF u = "qemu+ssh://host/system" THEN "host" ELSE ""

\* The address a handle opened with an empty address reports (virConnect.getURI).
HandleURI == "qemu:///system"

\* ---------------------------------------------------------------- __init__
__init__(uri) ==
    LET _initial_uri == uri
        m == MagicURI(_initial_uri)
        magic == uri_is_magic(_initial_uri)
    IN  /\ _magic_uri = IF magic THEN _initial_uri ELSE NoneStr
        /\ _open_uri = IF magic THEN m.open_uri ELSE _initial_uri
        /\ _uri = IF magic THEN m.fake_uri ELSE _initial_uri
        /\ _fake_conn_predictable = IF magic THEN m.predictable ELSE FALSE
        /\ _fake_conn_remote = IF magic THEN m.remote ELSE FALSE
        /\ _fake_conn_session = IF magic THEN m.session ELSE FALSE
        /\ _fake_conn_version = IF magic THEN m.conn_version ELSE NoneVer
        /\ _fake_libvirt_version = IF magic THEN m.libvirt_version ELSE NoneVer
        /\ _daemon_version = NoneVer
        /\ _conn_version = NoneVer
        /\ _libvirtconn = FALSE
        /\ _uriobj = IF magic THEN m.fake_uri ELSE _initial_uri
        /\ _caps = FALSE
        /\ _support_cache = [k \in {} |-> FALSE]
        /\ _fetch_cache = EmptyCache
        /\ cbs = {}

\* Bookkeeping of the calls made so far (not program state).
InitHistory ==
    /\ last = [op |-> "__init__"]
    /\ window = [k \in {} |-> <<>>]
    /\ since_close = [had |-> FALSE, hooked |-> FALSE, enumd |-> {}]
    /\ pool_override = FALSE
    /\ version_calls = [daemon |-> 0, conn |-> 0]
    /\ evaluated = [k \in {} |-> FALSE]
    /\ caps_calls = [calls |-> 0, fetched |-> 0]

\* ------------------------------------------------------------- properties
is_closed == ~_libvirtconn

is_open == _libvirtconn

\* _get_uri: self._uri or self._open_uri
_get_uri == IF _uri \notin {NoneStr, ""} THEN _uri ELSE _open_uri

getURI == _uri

\* ------------------------------------------------------------------ close
\* The status codes virConnect.close() may return.
CloseCodes == {0, 1}

close_keeps_cache(conn, cache, code) ==
    [ret |-> IF conn THEN code ELSE 0,
     called |-> conn,
     _libvirtconn |-> FALSE,
     _uri |-> NoneStr,
     _fetch_cache |-> cache]

close_always_calls(conn, cache, code) ==
    [ret |-> code,
     called |-> TRUE,
     _libvirtconn |-> FALSE,
     _uri |-> NoneStr,
     _fetch_cache |-> EmptyCache]

close_op(conn, cache, code) ==
    [ret |-> IF conn THEN code ELSE 0,
     called |-> conn,
     _libvirtconn |-> FALSE,
     _uri |-> NoneStr,
     _fetch_cache |-> EmptyCache]

close ==
    \E code \in CloseCodes :
        LET r == close_op(_libvirtconn, _fetch_cache, code)
        IN  /\ (~_libvirtconn => code = 0)
            /\ _libvirtconn' = r._libvirtconn
            /\ _uri' = r._uri
            /\ _fetch_cache' = r._fetch_cache
            /\ last' = [op |-> "close", ret |-> r.ret, called |-> r.called,
                        code |-> code, was_open |-> _libvirtconn,
                        before |-> [uri |-> _uri, cache |-> _fetch_cache,
                                    reported |-> _get_uri, flags |-> flags]]
            /\ UNCHANGED <<identity, negotiation, _uriobj, cbs>>

\* ------------------------------------------------------------------- open
open ==
    \E ok \in BOOLEAN :
        /\ IF ok
           THEN /\ _libvirtconn' = TRUE
                /\ IF _open_uri = ""
                   THEN _uri' = HandleURI /\ _uriobj' = HandleURI
                   ELSE UNCHANGED <<_uri, _uriobj>>
           ELSE UNCHANGED <<_libvirtconn, _uri, _uriobj>>
        /\ last' = [op |-> "open", raised |-> ~ok]
        /\ UNCHANGED <<identity, negotiation, _fetch_cache, cbs>>

\* ------------------------------------------------------- polling routines
Raised == [raised |-> TRUE, val |-> <<>>]

Returned(v) == [raised |-> FALSE, val |-> v]

Range(q) == {q[i] : i \in DOMAIN q}

Min(a, b) == IF a < b THEN a ELSE b

\* pollhelpers.fetch_vms / fetch_pools / fetch_nodedevs followed by one
\* XMLDesc per listed object: the n listed objects in order, or a failure of the
\* whole enumeration (any remote call failing, or no live handle to call).
poll_fetch(conn, ok, n) == IF conn /\ ok THEN Returned(Listing(n)) ELSE Raised

_fetch_all_domains_raw(conn, ok, n) == poll_fetch(conn, ok, n)

_fetch_all_pools_raw(conn, ok, n) == poll_fetch(conn, ok, n)

_fetch_all_nodedevs_raw(conn, ok, n) == poll_fetch(conn, ok, n)

\* The caller's view of a returned list: `shared` tells whether it is the very
\* list object the cache holds.
ListCopy(l) == [val |-> l, shared |-> FALSE]

ListAlias(l) == [val |-> l, shared |-> TRUE]

\* self._fetch_cache[key][:]
cache_slice(l) == ListCopy(l)

\* if key not in self._fetch_cache: always refetching
fetch_uncached(cache, key, raw) ==
    IF raw.raised
    THEN [raised |-> TRUE, cache |-> cache, val |-> <<>>, shared |-> FALSE,
          enum |-> {key}]
    ELSE [raised |-> FALSE, cache |-> Put(cache, key, raw.val),
          val |-> cache_slice(raw.val).val,
          shared |-> cache_slice(raw.val).shared, enum |-> {key}]

\* a failed enumeration leaving an empty list under the key before it fails
fetch_cached_keeps_partial(cache, key, raw) ==
    IF key \notin DOMAIN cache
    THEN IF raw.raised
         THEN [raised |-> TRUE, cache |-> Put(cache, key, <<>>), val |-> <<>>,
               shared |-> FALSE, enum |-> {key}]
         ELSE [raised |-> FALSE, cache |-> Put(cache, key, raw.val),
               val |-> cache_slice(raw.val).val,
               shared |-> cache_slice(raw.val).shared, enum |-> {key}]
    ELSE [raised |-> FALSE, cache |-> cache,
          val |-> cache_slice(cache[key]).val,
          shared |-> cache_slice(cache[key]).shared, enum |-> {}]

\* key = ...; if key not in self._fetch_cache: self._fetch_cache[key] = raw();
\* return self._fetch_cache[key][:]
fetch_cached(cache, key, raw) ==
    IF key \notin DOMAIN cache
    THEN IF raw.raised
         THEN [raised |-> TRUE, cache |-> cache, val |-> <<>>, shared |-> FALSE,
               enum |-> {key}]
         ELSE [raised |-> FALSE, cache |-> Put(cache, key, raw.val),
               val |-> cache_slice(raw.val).val,
               shared |-> cache_slice(raw.val).shared, enum |-> {key}]
    ELSE [raised |-> FALSE, cache |-> cache,
          val |-> cache_slice(cache[key]).val,
          shared |-> cache_slice(cache[key]).shared, enum |-> {}]

\* if self.cb_fetch_all_X: return self.cb_fetch_all_X()
delegate(cache, cbval) ==
    [raised |-> FALSE, cache |-> cache, val |-> cbval, shared |-> FALSE, enum |-> {}]

fetch_all_domains_op(cache, hooks, conn, ok, n, cbval) ==
    IF "cb_fetch_all_domains" \in hooks
    THEN delegate(cache, cbval)
    ELSE fetch_cached(cache, _FETCH_KEY_DOMAINS, _fetch_all_domains_raw(conn, ok, n))

\* fetch_all_pools looking into the cache before it looks at its callback
fetch_all_pools_cache_first(cache, hooks, conn, ok, n, cbval) ==
    IF _FETCH_KEY_POOLS \in DOMAIN cache
    THEN fetch_cached(cache, _FETCH_KEY_POOLS, Raised)
    ELSE IF "cb_fetch_all_pools" \in hooks
         THEN delegate(cache, cbval)
         ELSE fetch_cached(cache, _FETCH_KEY_POOLS, _fetch_all_pools_raw(conn, ok, n))

fetch_all_pools_op(cache, hooks, conn, ok, n, cbval) ==
    IF "cb_fetch_all_pools" \in hooks
    THEN delegate(cache, cbval)
    ELSE fetch_cached(cache, _FETCH_KEY_POOLS, _fetch_all_pools_raw(conn, ok, n))

fetch_all_nodedevs_op(cache, hooks, conn, ok, n, cbval) ==
    IF "cb_fetch_all_nodedevs" \in hooks
    THEN delegate(cache, cbval)
    ELSE fetch_cached(cache, _FETCH_KEY_NODEDEVS, _fetch_all_nodedevs_raw(conn, ok, n))

\* _fetch_vols_raw without the try/except around vol.XMLDesc(0)
_fetch_vols_raw_aborting(conn, pool, st, failing) ==
    IF ~conn \/ st = "gone"
    THEN Raised
    ELSE IF st # "running"
         THEN Returned(<<>>)
         ELSE IF Range(VolsOf(pool)) \cap failing # {}
              THEN Raised
              ELSE Returned(VolsOf(pool))

\* _fetch_vols_raw(poolxmlobj): st is the remote's answer for the pool, failing
\* the volumes whose XMLDesc raises.
_fetch_vols_raw(conn, pool, st, failing) ==
    IF ~conn \/ st = "gone"
    THEN Raised
    ELSE IF st # "running"
         THEN Returned(<<>>)
         ELSE Returned(SelectSeq(VolsOf(pool), LAMBDA v : v \notin failing))

RECURSIVE extend_vols(_, _, _, _)
\* for poolxmlobj in pools: ret.extend(self._fetch_vols_raw(poolxmlobj))
extend_vols(pools, conn, st, failing) ==
    IF pools = <<>>
    THEN Returned(<<>>)
    ELSE LET h == _fetch_vols_raw(conn, Head(pools), st[Head(pools)], failing)
         IN  IF h.raised
             THEN Raised
             ELSE LET t == extend_vols(Tail(pools), conn, st, failing)
                  IN  IF t.raised THEN Raised ELSE Returned(h.val \o t.val)

\* _fetch_all_vols_raw, given the outcome pc of its self.fetch_all_pools() call
_fetch_all_vols_raw(pc, conn, st, failing) ==
    IF pc.raised THEN Raised ELSE extend_vols(pc.val, conn, st, failing)

\* fetch_all_vols taking the pool list without letting fetch_all_pools cache it
fetch_all_vols_skipping_pools(cache, hooks, conn, pc, st, failing, cbval) ==
    IF "cb_fetch_all_vols" \in hooks
    THEN delegate(cache, cbval)
    ELSE IF _FETCH_KEY_VOLS \in DOMAIN cache
         THEN fetch_cached(cache, _FETCH_KEY_VOLS, Raised)
         ELSE LET r == fetch_cached(cache, _FETCH_KEY_VOLS,
                                    _fetch_all_vols_raw(pc, conn, st, failing))
              IN  [r EXCEPT !.enum = @ \cup pc.enum]

fetch_all_vols_op(cache, hooks, conn, pc, st, failing, cbval) ==
    IF "cb_fetch_all_vols" \in hooks
    THEN delegate(cache, cbval)
    ELSE IF _FETCH_KEY_VOLS \in DOMAIN cache
         THEN fetch_cached(cache, _FETCH_KEY_VOLS, Raised)
         ELSE LET r == fetch_cached(pc.cache, _FETCH_KEY_VOLS,
                                    _fetch_all_vols_raw(pc, conn, st, failing))
              IN  [r EXCEPT !.enum = @ \cup pc.enum]

\* _build_pool_raw(poolobj): wraps the pool's description, which may fail to load
_build_pool_raw(pool, xmlok) == IF xmlok THEN Returned(pool) ELSE Raised

\* _cache_new_pool_raw storing the new pool's volumes in place of the cached list
_cache_new_pool_raw_replacing(cache, conn, pool, xmlok, st, failing) ==
    IF _FETCH_KEY_POOLS \notin DOMAIN cache
    THEN [raised |-> FALSE, cache |-> cache]
    ELSE LET poolxmlobj == _build_pool_raw(pool, xmlok)
             c1 == [cache EXCEPT ![_FETCH_KEY_POOLS] = Append(@, poolxmlobj.val)]
             vols == _fetch_vols_raw(conn, pool, st, failing)
         IN  IF poolxmlobj.raised
             THEN [raised |-> TRUE, cache |-> cache]
             ELSE IF _FETCH_KEY_VOLS \notin DOMAIN cache
                  THEN [raised |-> FALSE, cache |-> c1]
                  ELSE IF vols.raised
                       THEN [raised |-> TRUE, cache |-> c1]
                       ELSE [raised |-> FALSE,
                             cache |-> [c1 EXCEPT ![_FETCH_KEY_VOLS] = vols.val]]

_cache_new_pool_raw(cache, conn, pool, xmlok, st, failing) ==
    IF _FETCH_KEY_POOLS \notin DOMAIN cache
    THEN [raised |-> FALSE, cache |-> cache]
    ELSE LET poolxmlobj == _build_pool_raw(pool, xmlok)
             c1 == [cache EXCEPT ![_FETCH_KEY_POOLS] = Append(@, poolxmlobj.val)]
             vols == _fetch_vols_raw(conn, pool, st, failing)
         IN  IF poolxmlobj.raised
             THEN [raised |-> TRUE, cache |-> cache]
             ELSE IF _FETCH_KEY_VOLS \notin DOMAIN cache
                  THEN [raised |-> FALSE, cache |-> c1]
                  ELSE IF vols.raised
                       THEN [raised |-> TRUE, cache |-> c1]
                       ELSE [raised |-> FALSE,
                             cache |-> [c1 EXCEPT ![_FETCH_KEY_VOLS] = @ \o vols.val]]

cache_new_pool_op(cache, hooks, conn, pool, xmlok, st, failing) ==
    IF "cb_cache_new_pool" \in hooks
    THEN [raised |-> FALSE, cache |-> cache]
    ELSE _cache_new_pool_raw(cache, conn, pool, xmlok, st, failing)

\* --------------------------------------------------------- version checks
\* The releases the remote endpoint may run. getLibVersion() reports the
\* release itself, getVersion() the hypervisor version that goes with it.
Versions == 1..MaxVersion

getLibVersion(v) == v

getVersion(v) == 10 + v

local_libvirt_version_op(fake) ==
    IF fake # NoneVer THEN fake ELSE LocalLibvirtVersion

\* is_remote: self._fake_conn_remote or self._uriobj.hostname
is_remote_op(fake_remote, uriobj) == fake_remote \/ Hostname(uriobj) # ""

\* try: memo = self._libvirtconn.<getter>() except Exception: memo stays 0.
\* `fetched` tells whether the remote call was issued (it is not without a handle).
remote_fetch(conn, ok, answer) ==
    [memo |-> IF conn /\ ok THEN answer ELSE 0, fetched |-> conn]

\* daemon_version with the is_remote() test dropped
daemon_version_always_remote(fake, remote, memo, conn, ok, v) ==
    IF fake # NoneVer
    THEN [ret |-> fake, memo |-> memo, fetched |-> FALSE]
    ELSE IF memo = NoneVer
         THEN LET f == remote_fetch(conn, ok, getLibVersion(v))
              IN  [ret |-> f.memo, memo |-> f.memo, fetched |-> f.fetched]
         ELSE [ret |-> memo, memo |-> memo, fetched |-> FALSE]

daemon_version_op(fake, remote, memo, conn, ok, v) ==
    IF fake # NoneVer
    THEN [ret |-> fake, memo |-> memo, fetched |-> FALSE]
    ELSE IF ~remote
         THEN [ret |-> local_libvirt_version_op(fake), memo |-> memo, fetched |-> FALSE]
         ELSE IF memo = NoneVer
              THEN LET f == remote_fetch(conn, ok, getLibVersion(v))
                   IN  [ret |-> f.memo, memo |-> f.memo, fetched |-> f.fetched]
              ELSE [ret |-> memo, memo |-> memo, fetched |-> FALSE]

\* conn_version that memoizes only a fetch that succeeded
conn_version_retries(fake, memo, conn, ok, v) ==
    IF fake # NoneVer
    THEN [ret |-> fake, memo |-> memo, fetched |-> FALSE]
    ELSE IF memo = NoneVer
         THEN LET f == remote_fetch(conn, ok, getVersion(v))
              IN  [ret |-> f.memo,
                   memo |-> IF conn /\ ok THEN f.memo ELSE NoneVer,
                   fetched |-> f.fetched]
         ELSE [ret |-> memo, memo |-> memo, fetched |-> FALSE]

conn_version_op(fake, memo, conn, ok, v) ==
    IF fake # NoneVer
    THEN [ret |-> fake, memo |-> memo, fetched |-> FALSE]
    ELSE IF memo = NoneVer
         THEN LET f == remote_fetch(conn, ok, getVersion(v))
              IN  [ret |-> f.memo, memo |-> f.memo, fetched |-> f.fetched]
         ELSE [ret |-> memo, memo |-> memo, fetched |-> FALSE]

is_remote == is_remote_op(_fake_conn_remote, _uriobj)

local_libvirt_version ==
    /\ last' = [op |-> "local_libvirt_version",
                ret |-> local_libvirt_version_op(_fake_libvirt_version)]
    /\ UNCHANGED <<identity, negotiation, _uri, _uriobj, _libvirtconn, _fetch_cache, cbs>>

daemon_version ==
    \E ok \in BOOLEAN :
        LET r == daemon_version_op(_fake_libvirt_version, is_remote, _daemon_version,
                                   _libvirtconn, ok, remote_version)
            asks == _fake_libvirt_version = NoneVer /\ is_remote
                    /\ _daemon_version = NoneVer /\ _libvirtconn
        IN  /\ Unused(asks, ok, TRUE)
            /\ _daemon_version' = r.memo
            /\ last' = [op |-> "daemon_version", ret |-> r.ret, fetched |-> r.fetched,
                        ok |-> ok, conn |-> _libvirtconn, remote |-> is_remote,
                        memo |-> _daemon_version]
            /\ UNCHANGED <<identity, _conn_version, _caps, _support_cache, remote_version,
                           _uri, _uriobj, _libvirtconn, _fetch_cache, cbs>>

conn_version ==
    \E ok \in BOOLEAN :
        LET r == conn_version_op(_fake_conn_version, _conn_version, _libvirtconn, ok,
                                 remote_version)
            asks == _fake_conn_version = NoneVer /\ _conn_version = NoneVer /\ _libvirtconn
        IN  /\ Unused(asks, ok, TRUE)
            /\ _conn_version' = r.memo
            /\ last' = [op |-> "conn_version", ret |-> r.ret, fetched |-> r.fetched,
                        ok |-> ok, conn |-> _libvirtconn, memo |-> _conn_version]
            /\ UNCHANGED <<identity, _daemon_version, _caps, _support_cache, remote_version,
                           _uri, _uriobj, _libvirtconn, _fetch_cache, cbs>>

\* The remote endpoint is upgraded or downgraded to another release.
remote_changes ==
    \E v \in Versions \ {remote_version} :
        /\ remote_version' = v
        /\ last' = [op |-> "remote_changes"]
        /\ UNCHANGED <<identity, _daemon_version, _conn_version, _caps, _support_cache,
                       _uri, _uriobj, _libvirtconn, _fetch_cache, cbs>>

\* ------------------------------------------------------------ capabilities
\* _get_caps fetching the document on every read
_get_caps_unmemoized(caps, conn, ok) ==
    IF conn /\ ok
    THEN [raised |-> FALSE, _caps |-> TRUE, called |-> TRUE, fetched |-> TRUE]
    ELSE [raised |-> TRUE, _caps |-> caps, called |-> conn, fetched |-> FALSE]

\* def _get_caps(self): the snapshot is present (TRUE) or None (FALSE); `called`
\* tells whether getCapabilities() reached the live handle, `fetched` whether it
\* returned the document and Capabilities() wrapped it.
_get_caps_op(caps, conn, ok) ==
    IF ~caps
    THEN IF conn /\ ok
         THEN [raised |-> FALSE, _caps |-> TRUE, called |-> TRUE, fetched |-> TRUE]
         ELSE [raised |-> TRUE, _caps |-> caps, called |-> conn, fetched |-> FALSE]
    ELSE [raised |-> FALSE, _caps |-> caps, called |-> FALSE, fetched |-> FALSE]

\* invalidate_caps clearing the object-list cache along with the snapshot
invalidate_caps_all(caps, cache) == [_caps |-> FALSE, _fetch_cache |-> EmptyCache]

\* def invalidate_caps(self): self._caps = None
invalidate_caps_op(caps, cache) == [_caps |-> FALSE, _fetch_cache |-> cache]

\* A read of the caps property.
_get_caps ==
    \E ok \in BOOLEAN :
        LET r == _get_caps_op(_caps, _libvirtconn, ok)
        IN  /\ Unused(~_caps /\ _libvirtconn, ok, TRUE)
            /\ _caps' = r._caps
            /\ last' = [op |-> "_get_caps", raised |-> r.raised, called |-> r.called,
                        fetched |-> r.fetched, had |-> _caps]
            /\ UNCHANGED <<identity, _daemon_version, _conn_version, _support_cache,
                           remote_version, _uri, _uriobj, _libvirtconn, _fetch_cache, cbs>>

invalidate_caps ==
    LET r == invalidate_caps_op(_caps, _fetch_cache)
    IN  /\ _caps' = r._caps
        /\ _fetch_cache' = r._fetch_cache
        /\ last' = [op |-> "invalidate_caps", had |-> _caps]
        /\ UNCHANGED <<identity, _daemon_version, _conn_version, _support_cache,
                       remote_version, _uri, _uriobj, _libvirtconn, cbs>>

\* ---------------------------------------------------- support check helpers
Keys == 1..NumKeys

\* The `data` argument: absent, or some object of the caller's.
Data == {"None", "obj"}

\* data or self
data_or_self(data) == IF data = "None" THEN "self" ELSE data

\* self.support.check_support(self, key, data or self): what the support matrix
\* answers for the key, the object checked and the remote's state at the call.
support_check_support(matrix, key, data) == matrix[<<key, data_or_self(data)>>]

\* util.listify(features)
listify(features) ==
    IF features.kind = "key" THEN <<features.key>> ELSE features.list

\* _check_support without the lookup in self._support_cache
_check_support_unmemoized(cache, key, matrix, data) ==
    LET res == support_check_support(matrix, key, data)
    IN  [val |-> res, cache |-> Put(cache, key, res), evald |-> << <<key, res>> >>]

\* def _check_support(key)
_check_support(cache, key, matrix, data) ==
    IF key \notin DOMAIN cache
    THEN LET res == support_check_support(matrix, key, data)
         IN  [val |-> res, cache |-> Put(cache, key, res), evald |-> << <<key, res>> >>]
    ELSE [val |-> cache[key], cache |-> cache, evald |-> <<>>]

RECURSIVE check_support_all(_, _, _, _)
\* return all([_check_support(f) for f in features]): every feature is evaluated
check_support_all(cache, fs, matrix, data) ==
    IF fs = <<>>
    THEN [ret |-> TRUE, cache |-> cache, evald |-> <<>>]
    ELSE LET c == _check_support(cache, Head(fs), matrix, data)
             t == check_support_all(c.cache, Tail(fs), matrix, data)
         IN  [ret |-> c.val /\ t.ret, cache |-> t.cache, evald |-> c.evald \o t.evald]

RECURSIVE check_support_op(_, _, _, _)
\* for f in listify(features): if not _check_support(f): return False
\* return True
check_support_op(cache, fs, matrix, data) ==
    IF fs = <<>>
    THEN [ret |-> TRUE, cache |-> cache, evald |-> <<>>]
    ELSE LET c == _check_support(cache, Head(fs), matrix, data)
         IN  IF ~c.val
             THEN [ret |-> FALSE, cache |-> c.cache, evald |-> c.evald]
             ELSE LET t == check_support_op(c.cache, Tail(fs), matrix, data)
                  IN  [ret |-> t.ret, cache |-> t.cache, evald |-> c.evald \o t.evald]

FeatureLists == UNION {[1..n -> Keys] : n \in 0..MaxFeatures}

FeatureArgs ==
    {[kind |-> "key", key |-> k, list |-> <<>>] : k \in Keys}
    \cup {[kind |-> "list", key |-> 0, list |-> l] : l \in FeatureLists}

\* The support matrix at one call: what it answers, for the object this call
\* checks, about each feature key.
MatrixFor(data, answers) ==
    [kd \in Keys \X {"self", "obj"} |->
        IF kd[2] = data_or_self(data) THEN answers[kd[1]] ELSE FALSE]

check_support ==
    \E features \in FeatureArgs, data \in Data, answers \in [Keys -> BOOLEAN] :
        LET fs == listify(features)
            matrix == MatrixFor(data, answers)
        IN  \E r \in {check_support_op(_support_cache, fs, matrix, data)} :
                /\ \A k \in Keys :
                      Unused(k \in {e[1] : e \in Range(r.evald)} \/ (fs # <<>> /\ k = fs[1]),
                             answers[k], FALSE)
                /\ _support_cache' = r.cache
                /\ last' = [op |-> "check_support", features |-> fs, data |-> data,
                            ret |-> r.ret, evald |-> r.evald, known |-> evaluated,
                            had |-> DOMAIN _support_cache,
                            would |-> fs # <<>> /\ support_check_support(matrix, fs[1], data)]
                /\ UNCHANGED <<identity, _daemon_version, _conn_version, _caps,
                               remote_version, _uri, _uriobj, _libvirtconn, _fetch_cache,
                               cbs>>

\* ---------------------------------------------------------------- actions
Completed(opname, key, hook, result, seen) ==
    \E r \in {result} :
        /\ _fetch_cache' = r.cache
        /\ last' = [op |-> opname, key |-> key, conn |-> _libvirtconn,
                    hooked |-> hook \in cbs, raised |-> r.raised, val |-> r.val,
                    shared |-> r.shared, enum |-> r.enum, before |-> _fetch_cache,
                    seen |-> seen]
        /\ UNCHANGED <<identity, negotiation, _uri, _uriobj, _libvirtconn, cbs>>

\* The lists an override callback may hand back.
CbObjs == {Listing(n) : n \in 0..MaxObjs}

CbPools == {Listing(n) : n \in 0..MaxPools}

CbVols == {<<>>, VolsOf(1)}

\* A cache miss may add the categories `keys` only while the cache stays within
\* MaxCached categories.
Fits(keys) == Cardinality((DOMAIN _fetch_cache) \cup keys) <= MaxCached

fetch_all_domains ==
    \E ok \in BOOLEAN, n \in 0..MaxObjs, cbval \in CbObjs :
        LET hooked == "cb_fetch_all_domains" \in cbs
            miss == ~hooked /\ _FETCH_KEY_DOMAINS \notin DOMAIN _fetch_cache
        IN  /\ Unused(hooked, cbval, <<>>)
            /\ Unused(miss /\ _libvirtconn, ok, TRUE)
            /\ Unused(miss /\ _libvirtconn /\ ok, n, 0)
            /\ miss => Fits({_FETCH_KEY_DOMAINS})
            /\ Completed("fetch_all_domains", _FETCH_KEY_DOMAINS, "cb_fetch_all_domains",
                         fetch_all_domains_op(_fetch_cache, cbs, _libvirtconn, ok, n, cbval),
                         [cb |-> cbval])

fetch_all_pools ==
    \E ok \in BOOLEAN, n \in 0..MaxPools, cbval \in CbPools :
        LET hooked == "cb_fetch_all_pools" \in cbs
            miss == ~hooked /\ _FETCH_KEY_POOLS \notin DOMAIN _fetch_cache
        IN  /\ Unused(hooked, cbval, <<>>)
            /\ Unused(miss /\ _libvirtconn, ok, TRUE)
            /\ Unused(miss /\ _libvirtconn /\ ok, n, 0)
            /\ miss => Fits({_FETCH_KEY_POOLS})
            /\ Completed("fetch_all_pools", _FETCH_KEY_POOLS, "cb_fetch_all_pools",
                         fetch_all_pools_op(_fetch_cache, cbs, _libvirtconn, ok, n, cbval),
                         [cb |-> cbval])

fetch_all_nodedevs ==
    \E ok \in BOOLEAN, n \in 0..MaxObjs, cbval \in CbObjs :
        LET hooked == "cb_fetch_all_nodedevs" \in cbs
            miss == ~hooked /\ _FETCH_KEY_NODEDEVS \notin DOMAIN _fetch_cache
        IN  /\ Unused(hooked, cbval, <<>>)
            /\ Unused(miss /\ _libvirtconn, ok, TRUE)
            /\ Unused(miss /\ _libvirtconn /\ ok, n, 0)
            /\ miss => Fits({_FETCH_KEY_NODEDEVS})
            /\ Completed("fetch_all_nodedevs", _FETCH_KEY_NODEDEVS, "cb_fetch_all_nodedevs",
                         fetch_all_nodedevs_op(_fetch_cache, cbs, _libvirtconn, ok, n, cbval),
                         [cb |-> cbval])

\* The volumes the running pools of a pool list hold.
Listed(pools, st) ==
    UNION {Range(VolsOf(p)) : p \in {q \in Range(pools) : st[q] = "running"}}

\* The pools of a pool list that the volume loop gets to look up: none without
\* a live handle, otherwise those up to the first one the remote no longer has.
LookedUp(pools, conn, st) ==
    LET gone == {i \in DOMAIN pools : st[pools[i]] = "gone"}
        stop == IF gone = {} THEN Len(pools)
                ELSE CHOOSE i \in gone : \A j \in gone : i <= j
    IN  IF conn THEN {pools[i] : i \in 1..stop} ELSE {}

fetch_all_vols ==
    \E ok \in BOOLEAN, n \in 0..MaxPools, cbpools \in CbPools, cbval \in CbVols :
        LET hooked == "cb_fetch_all_vols" \in cbs
            miss == ~hooked /\ _FETCH_KEY_VOLS \notin DOMAIN _fetch_cache
            poolhooked == "cb_fetch_all_pools" \in cbs
            poolmiss == miss /\ ~poolhooked /\ _FETCH_KEY_POOLS \notin DOMAIN _fetch_cache
        IN  /\ Unused(hooked, cbval, <<>>)
            /\ Unused(miss /\ poolhooked, cbpools, <<>>)
            /\ Unused(poolmiss /\ _libvirtconn, ok, TRUE)
            /\ Unused(poolmiss /\ _libvirtconn /\ ok, n, 0)
            /\ miss => Fits({_FETCH_KEY_VOLS})
            /\ poolmiss => Fits({_FETCH_KEY_POOLS, _FETCH_KEY_VOLS})
            /\ \E pc \in {fetch_all_pools_op(_fetch_cache, cbs, _libvirtconn, ok, n,
                                            cbpools)} :
                 LET pools == IF miss /\ ~pc.raised THEN pc.val ELSE <<>>
                 IN  \E st \in [Range(pools) -> PoolStates] :
                       LET looked == LookedUp(pools, _libvirtconn, st)
                           loaded == IF \E q \in looked : st[q] = "gone"
                                     THEN <<>>
                                     ELSE SelectSeq(pools, LAMBDA q : q \in looked)
                       IN  /\ \A q \in Range(pools) : Unused(q \in looked, st[q], "running")
                           /\ \E failing \in SUBSET Listed(loaded, st) :
                                Completed("fetch_all_vols", _FETCH_KEY_VOLS,
                                          "cb_fetch_all_vols",
                                          fetch_all_vols_op(_fetch_cache, cbs, _libvirtconn,
                                                            pc, st, failing, cbval),
                                          [listed |-> miss /\ ~pc.raised, pools |-> pools,
                                           st |-> st, failing |-> failing, cb |-> cbval])

\* The cached pool list is kept within this length.
MaxCacheLen == MaxPools

cache_new_pool ==
    \E pool \in Pools, xmlok \in BOOLEAN, st \in PoolStates :
      \E failing \in SUBSET Range(VolsOf(pool)) :
        LET hooked == "cb_cache_new_pool" \in cbs
            primed == ~hooked /\ _FETCH_KEY_POOLS \in DOMAIN _fetch_cache
            looked == primed /\ xmlok /\ _FETCH_KEY_VOLS \in DOMAIN _fetch_cache
        IN  /\ primed => Len(_fetch_cache[_FETCH_KEY_POOLS]) < MaxCacheLen
            /\ Unused(primed, xmlok, TRUE)
            /\ Unused(looked, st, "running")
            /\ Unused(looked /\ st = "running", failing, {})
            /\ \E r \in {cache_new_pool_op(_fetch_cache, cbs, _libvirtconn, pool,
                                            xmlok, st, failing)} :
                 /\ _fetch_cache' = r.cache
                 /\ last' = [op |-> "cache_new_pool", pool |-> pool, hooked |-> hooked,
                             raised |-> r.raised, st |-> st, failing |-> failing,
                             before |-> _fetch_cache]
            /\ UNCHANGED <<identity, negotiation, _uri, _uriobj, _libvirtconn, cbs>>

\* The application sets or clears one of the cb_* attributes.
register_callback ==
    \E h \in Hooks \ cbs :
        /\ Cardinality(cbs) < MaxHooks
        /\ cbs' = cbs \cup {h}
        /\ last' = [op |-> "register_callback"]
        /\ UNCHANGED <<identity, negotiation, _uri, _uriobj, _libvirtconn, _fetch_cache>>

unregister_callback ==
    \E h \in cbs :
        /\ cbs' = cbs \ {h}
        /\ last' = [op |-> "unregister_callback"]
        /\ UNCHANGED <<identity, negotiation, _uri, _uriobj, _libvirtconn, _fetch_cache>>

\* ------------------------------------------------------------- the caller
FetchOps == {"fetch_all_domains", "fetch_all_pools", "fetch_all_vols",
             "fetch_all_nodedevs"}

\* An object the caller puts into a list it was handed.
Foreign(key) == IF key = _FETCH_KEY_VOLS THEN <<0, 0>> ELSE 0

Reverse(q) == [i \in 1..Len(q) |-> q[Len(q) + 1 - i]]

Mutations == {"append", "remove", "reverse"}

Mutated(m, key, q) ==
    CASE m = "append" -> Append(q, Foreign(key))
      [] m = "remove" -> Tail(q)
      [] m = "reverse" -> Reverse(q)

\* The caller appends to, removes from or reorders the list the last fetch_all
\* returned. A list that is the cache's own list object changes the cache too.
caller_mutates ==
    \E m \in Mutations :
        /\ last.op \in FetchOps
        /\ ~last.raised
        /\ m = "remove" => last.val # <<>>
        /\ m = "reverse" => Len(last.val) > 1
        /\ _fetch_cache' = IF last.shared /\ last.key \in DOMAIN _fetch_cache
                           THEN [_fetch_cache EXCEPT ![last.key] = Mutated(m, last.key, last.val)]
                           ELSE _fetch_cache
        /\ last' = [op |-> "caller_mutates", key |-> last.key, hooked |-> last.hooked,
                    returned |-> last.val, before |-> _fetch_cache]
        /\ UNCHANGED <<identity, negotiation, _uri, _uriobj, _libvirtconn, cbs>>

\* ------------------------------------------------------- call bookkeeping
\* window[k]: the first list a cache-path fetch_all of category k returned since
\* the last close() (for pools and volumes: or cache_new_pool()), and the number
\* of remote enumerations of k issued since that call began.
WindowAfter(key, r) ==
    LET counted == [k \in DOMAIN window |->
                       IF k \in r.enum
                       THEN [window[k] EXCEPT !.enums = Min(@ + 1, 2)]
                       ELSE window[k]]
    IN  IF key \in DOMAIN window \/ r.raised
        THEN counted
        ELSE Put(counted, key,
                 [val |-> r.val, enums |-> IF key \in r.enum THEN 1 ELSE 0])

TrackWindow ==
    window' =
        CASE last'.op \in FetchOps -> IF last'.hooked THEN window
                                      ELSE WindowAfter(last'.key, last')
          [] last'.op = "close" -> [k \in {} |-> <<>>]
          [] last'.op = "cache_new_pool" ->
                [k \in (DOMAIN window) \ {_FETCH_KEY_POOLS, _FETCH_KEY_VOLS} |-> window[k]]
          [] OTHER -> window

\* since_close: whether the last close() dropped a non-empty cache, whether an
\* override callback has been registered at any time since it, and the
\* categories a remote enumeration has filled since it.
TrackSinceClose ==
    since_close' =
        CASE last'.op = "close" ->
                [had |-> DOMAIN _fetch_cache # {}, hooked |-> cbs # {}, enumd |-> {}]
          [] last'.op = "register_callback" -> [since_close EXCEPT !.hooked = TRUE]
          [] last'.op \in FetchOps ->
                [since_close EXCEPT
                    !.enumd = @ \cup ((DOMAIN _fetch_cache') \ (DOMAIN _fetch_cache))]
          [] OTHER -> since_close

\* caps_calls: the getCapabilities() calls that reached the live handle, and
\* those of them that returned the document, since the last invalidate_caps().
TrackCapsCalls ==
    caps_calls' =
        CASE last'.op = "invalidate_caps" -> [calls |-> 0, fetched |-> 0]
          [] last'.op = "_get_caps" ->
                [calls |-> Min(caps_calls.calls + (IF last'.called THEN 1 ELSE 0), 2),
                 fetched |-> Min(caps_calls.fetched + (IF last'.fetched THEN 1 ELSE 0), 2)]
          [] OTHER -> caps_calls

\* version_calls: the remote version calls issued so far, per getter.
TrackVersionCalls ==
    version_calls' =
        CASE last'.op = "daemon_version" /\ last'.fetched ->
                [version_calls EXCEPT !.daemon = Min(@ + 1, 2)]
          [] last'.op = "conn_version" /\ last'.fetched ->
                [version_calls EXCEPT !.conn = Min(@ + 1, 2)]
          [] OTHER -> version_calls

\* evaluated[k]: what the support matrix answered the first time it was asked
\* about feature key k.
FirstAnswer(evald, k) ==
    evald[CHOOSE i \in DOMAIN evald :
              evald[i][1] = k /\ \A j \in 1..(i - 1) : evald[j][1] # k][2]

TrackEvaluated ==
    evaluated' =
        IF last'.op = "check_support"
        THEN [k \in (DOMAIN evaluated) \cup {e[1] : e \in Range(last'.evald)} |->
                 IF k \in DOMAIN evaluated THEN evaluated[k]
                 ELSE FirstAnswer(last'.evald, k)]
        ELSE evaluated

\* ---------------------------------------------------------- specification
\* The facade used without override callbacks.
Init ==
    /\ __init__("qemu+ssh://host/system")
    /\ remote_version = 0
    /\ InitHistory

Tracked == TrackWindow /\ UNCHANGED <<since_close, pool_override, version_calls, evaluated, caps_calls>>

Next ==
    \/ open /\ Tracked
    \/ close /\ Tracked
    \/ fetch_all_domains /\ Tracked
    \/ fetch_all_pools /\ Tracked
    \/ fetch_all_vols /\ Tracked
    \/ fetch_all_nodedevs /\ Tracked
    \/ cache_new_pool /\ Tracked
    \/ caller_mutates /\ Tracked

Spec == Init /\ [][Next]_vars

\* The facade with override callbacks being registered and removed.
TrackedLifecycle ==
    TrackSinceClose
        /\ UNCHANGED <<window, pool_override, version_calls, evaluated, caps_calls>>

\* pool_override: whether the override callback of fetch_all_pools has been
\* registered at any time since the last close().
TrackPoolOverride ==
    pool_override' =
        CASE last'.op = "close" -> "cb_fetch_all_pools" \in cbs
          [] last'.op = "register_callback" ->
                pool_override \/ "cb_fetch_all_pools" \in cbs'
          [] OTHER -> pool_override

TrackedHooks ==
    TrackSinceClose /\ TrackPoolOverride
        /\ UNCHANGED <<window, version_calls, evaluated, caps_calls>>

NextHooks ==
    \/ open /\ TrackedHooks
    \/ close /\ TrackedHooks
    \/ fetch_all_domains /\ TrackedHooks
    \/ fetch_all_pools /\ TrackedHooks
    \/ fetch_all_vols /\ TrackedHooks
    \/ fetch_all_nodedevs /\ TrackedHooks
    \/ cache_new_pool /\ TrackedHooks
    \/ register_callback /\ TrackedHooks
    \/ unregister_callback /\ TrackedHooks

SpecHooks == Init /\ [][NextHooks]_vars

\* Closing and reopening the facade between fetches, with override callbacks
\* being registered and removed (pool insertion is part of Spec and SpecHooks).
NextLifecycle ==
    \/ open /\ TrackedLifecycle
    \/ close /\ TrackedLifecycle
    \/ fetch_all_domains /\ TrackedLifecycle
    \/ fetch_all_pools /\ TrackedLifecycle
    \/ fetch_all_vols /\ TrackedLifecycle
    \/ fetch_all_nodedevs /\ TrackedLifecycle
    \/ register_callback /\ TrackedLifecycle
    \/ unregister_callback /\ TrackedLifecycle

SpecLifecycle == Init /\ [][NextLifecycle]_vars

\* The version getters, on every kind of address.
InitVersion ==
    /\ \E uri \in InputURIs : __init__(uri)
    /\ remote_version \in Versions
    /\ InitHistory

TrackedVersion == TrackVersionCalls /\ UNCHANGED <<window, since_close, pool_override, evaluated, caps_calls>>

NextVersion ==
    \/ open /\ TrackedVersion
    \/ close /\ TrackedVersion
    \/ local_libvirt_version /\ TrackedVersion
    \/ daemon_version /\ TrackedVersion
    \/ conn_version /\ TrackedVersion
    \/ remote_changes /\ TrackedVersion

SpecVersion == InitVersion /\ [][NextVersion]_vars

\* The support checks.
InitSupport ==
    /\ __init__("qemu+ssh://host/system")
    /\ remote_version = 0
    /\ InitHistory

TrackedSupport == TrackEvaluated /\ UNCHANGED <<window, since_close, pool_override, version_calls, caps_calls>>

NextSupport ==
    \/ open /\ TrackedSupport
    \/ close /\ TrackedSupport
    \/ check_support /\ TrackedSupport

SpecSupport == InitSupport /\ [][NextSupport]_vars

\* The capability snapshot, read and invalidated between the other operations.
TrackedCaps ==
    TrackCapsCalls /\ UNCHANGED <<window, since_close, pool_override, version_calls, evaluated>>

NextCaps ==
    \/ open /\ TrackedCaps
    \/ close /\ TrackedCaps
    \/ _get_caps /\ TrackedCaps
    \/ invalidate_caps /\ TrackedCaps
    \/ fetch_all_pools /\ TrackedCaps
    \/ cache_new_pool /\ TrackedCaps

SpecCaps == InitSupport /\ [][NextCaps]_vars

\* The snapshot invalidated with every other memo and cache of the facade in use.
NextCapsFrame ==
    \/ open /\ TrackedCaps
    \/ close /\ TrackedCaps
    \/ _get_caps /\ TrackedCaps
    \/ invalidate_caps /\ TrackedCaps
    \/ daemon_version /\ TrackedCaps
    \/ conn_version /\ TrackedCaps
    \/ check_support /\ TrackedCaps
    \/ fetch_all_pools /\ TrackedCaps

SpecCapsFrame == InitSupport /\ [][NextCapsFrame]_vars

\* ------------------------------------------------------------- properties
IsFetch == last.op \in FetchOps

\* C1: for every category without an override callback, from the first
\* fetch_all that returns until the next close() or cache_new_pool(), at most
\* one remote enumeration of the category is issued and every further
\* fetch_all returns a list equal to the first one.
C1_SecondFetchFromCache ==
    \A k \in DOMAIN window :
        /\ window[k].enums <= 1
        /\ (IsFetch /\ last.key = k /\ ~last.hooked /\ ~last.raised)
              => last.val = window[k].val

C1_Witness ==
    /\ last.op = "fetch_all_vols"
    /\ ~last.raised
    /\ last.enum = {}
    /\ last.val # <<>>
    /\ _FETCH_KEY_VOLS \in DOMAIN window
    /\ window[_FETCH_KEY_VOLS].enums = 1

\* C2: the caller appending to, removing from or reordering a list fetch_all
\* returned leaves every cache entry as it was, and the entry of the list's
\* category still equals the list as it was returned.
C2_CopyIndependence ==
    last.op = "caller_mutates" =>
        /\ _fetch_cache = last.before
        /\ last.key \in DOMAIN _fetch_cache => _fetch_cache[last.key] = last.returned

C2_Witness ==
    /\ last.op = "caller_mutates"
    /\ last.key = _FETCH_KEY_POOLS
    /\ Len(last.returned) > 1

\* The volumes cache_new_pool is to append for a pool: the pool's volumes in
\* the pool's order without those whose description failed to load, and none
\* when the pool is not running.
NewPoolVols(pool, st, failing) ==
    IF st = "running"
    THEN SelectSeq(VolsOf(pool), LAMBDA v : v \notin failing)
    ELSE <<>>

\* C4: a cache_new_pool(p) that returns, with no insertion override: leaves the
\* cache unchanged when pools were never fetched; otherwise appends p to the
\* cached pool list, appends p's volumes to the cached volume list when there
\* is one, and changes nothing else.
C4_CacheNewPool ==
    (last.op = "cache_new_pool" /\ ~last.hooked /\ ~last.raised) =>
        IF _FETCH_KEY_POOLS \notin DOMAIN last.before
        THEN _fetch_cache = last.before
        ELSE /\ DOMAIN _fetch_cache = DOMAIN last.before
             /\ _fetch_cache[_FETCH_KEY_POOLS]
                   = Append(last.before[_FETCH_KEY_POOLS], last.pool)
             /\ Len(_fetch_cache[_FETCH_KEY_POOLS])
                   = Len(last.before[_FETCH_KEY_POOLS]) + 1
             /\ \A k \in (DOMAIN last.before) \ {_FETCH_KEY_POOLS, _FETCH_KEY_VOLS} :
                    _fetch_cache[k] = last.before[k]
             /\ _FETCH_KEY_VOLS \in DOMAIN last.before =>
                    _fetch_cache[_FETCH_KEY_VOLS]
                       = last.before[_FETCH_KEY_VOLS]
                            \o NewPoolVols(last.pool, last.st, last.failing)

C4_Witness ==
    /\ last.op = "cache_new_pool"
    /\ ~last.raised
    /\ _FETCH_KEY_VOLS \in DOMAIN last.before
    /\ last.before[_FETCH_KEY_VOLS] # <<>>
    /\ Len(_fetch_cache[_FETCH_KEY_VOLS]) = Len(last.before[_FETCH_KEY_VOLS]) + 1

\* C9: close() on an open connection returns the status code of the underlying
\* close, whatever it is, and leaves the handle dropped, the object-list cache
\* empty and the address field cleared.
C9_CloseOpen ==
    (last.op = "close" /\ last.was_open) =>
        /\ last.called
        /\ last.ret = last.code
        /\ is_closed
        /\ _fetch_cache = EmptyCache
        /\ _uri = NoneStr

C9_Witness ==
    /\ last.op = "close"
    /\ last.was_open
    /\ last.ret # 0
    /\ last.before.cache # EmptyCache

\* C5: check_support returns the AND of its features' results in list order;
\* when it returns False, a feature in the list is false, all before it are
\* true, and the call neither evaluated nor cached any feature after it.
C5_ShortCircuit ==
    last.op = "check_support" =>
        LET fs == last.features
            Upto(i) == {fs[j] : j \in 1..i}
        IN  /\ last.ret = (\A i \in DOMAIN fs :
                              fs[i] \in DOMAIN _support_cache /\ _support_cache[fs[i]])
            /\ ~last.ret =>
                  \E i \in DOMAIN fs :
                      /\ fs[i] \in DOMAIN _support_cache
                      /\ ~_support_cache[fs[i]]
                      /\ \A j \in 1..(i - 1) : _support_cache[fs[j]]
                      /\ \A e \in Range(last.evald) : e[1] \in Upto(i)
                      /\ (DOMAIN _support_cache) \ last.had \subseteq Upto(i)

C5_Witness ==
    /\ last.op = "check_support"
    /\ ~last.ret
    /\ Len(last.features) = 2
    /\ ~_support_cache[last.features[1]]
    /\ last.features[2] \notin DOMAIN _support_cache

\* C6: a feature key the support matrix was asked about once keeps that answer
\* in the support cache for good (across close() and open(), whatever the
\* remote runs), and no later check_support asks the matrix about it again,
\* whatever its data argument: a check of that one key returns the first answer.
C6_PermanentMemo ==
    /\ \A k \in DOMAIN evaluated :
          k \in DOMAIN _support_cache /\ _support_cache[k] = evaluated[k]
    /\ last.op = "check_support" =>
          /\ \A e \in Range(last.evald) : e[1] \notin DOMAIN last.known
          /\ (Len(last.features) = 1 /\ last.features[1] \in DOMAIN last.known)
                => last.ret = last.known[last.features[1]]

C6_Witness ==
    /\ last.op = "check_support"
    /\ Len(last.features) = 1
    /\ last.features[1] \in DOMAIN last.known
    /\ last.data = "obj"
    /\ last.would # last.ret
    /\ is_open

\* C7: on a connection that is not remote, daemon_version() returns what
\* local_libvirt_version() returns, issues no remote version call and leaves
\* the memoized daemon version as it was.
C7_DaemonVersionLocal ==
    (last.op = "daemon_version" /\ ~last.remote) =>
        /\ last.ret = local_libvirt_version_op(_fake_libvirt_version)
        /\ ~last.fetched
        /\ _daemon_version = last.memo
        /\ _daemon_version = NoneVer

C7_Witness ==
    /\ last.op = "daemon_version"
    /\ ~last.remote
    /\ is_open
    /\ _fake_libvirt_version = NoneVer

\* What a version getter without a forced version is to do, given the memo it
\* found, whether its remote call could succeed, what it returned and the memo
\* it left.
MemoizedOnce(call, memo) ==
    /\ memo = call.ret
    /\ call.memo # NoneVer => (call.ret = call.memo /\ ~call.fetched)
    /\ (call.memo = NoneVer /\ ~(call.conn /\ call.ok)) => call.ret = 0

\* C8: with no forced version, daemon_version() on a remote connection and
\* conn_version() issue at most one remote version call in the facade's
\* lifetime; a failed fetch yields and memoizes 0, and every later call returns
\* the memoized value without a remote call.
C8_VersionFetchedOnce ==
    /\ version_calls.daemon <= 1
    /\ version_calls.conn <= 1
    /\ (last.op = "daemon_version" /\ _fake_libvirt_version = NoneVer /\ last.remote)
          => MemoizedOnce(last, _daemon_version)
    /\ (last.op = "conn_version" /\ _fake_conn_version = NoneVer)
          => MemoizedOnce(last, _conn_version)

C8_Witness ==
    /\ last.op = "conn_version"
    /\ _fake_conn_version = NoneVer
    /\ last.memo = 0
    /\ last.ret = 0
    /\ is_open
    /\ last.ok
    /\ version_calls.conn = 1

\* C3 as stated: once a close() has dropped a cached snapshot, a fetch_all made
\* while the connection is closed fails, and a fetch_all that returns got its
\* list from a full remote enumeration of its category made after that close.
C3_AfterCloseFetchFails ==
    (IsFetch /\ since_close.had) =>
        /\ ~last.conn => last.raised
        /\ ~last.raised => last.key \in since_close.enumd

\* C3: with no override callback registered at any time from the close() on,
\* a fetch_all made while the connection is closed fails, and a fetch_all that
\* returns got its list from a full remote enumeration of its category made
\* after that close, never from the snapshot cached before it.
C3_NoStaleSnapshot ==
    (IsFetch /\ since_close.had /\ ~since_close.hooked) =>
        /\ ~last.conn => last.raised
        /\ ~last.raised => last.key \in since_close.enumd

C3_Witness ==
    /\ IsFetch
    /\ since_close.had
    /\ ~since_close.hooked
    /\ ~last.raised
    /\ last.key \in last.enum
    /\ last.val # <<>>

\* The fields of the facade a close() never writes.
kept == <<_open_uri, _uriobj, _magic_uri, _fake_conn_predictable, _fake_conn_remote,
          _fake_conn_session, _fake_conn_version, _fake_libvirt_version,
          _daemon_version, _conn_version, _caps, _support_cache, cbs>>

ClosedClose == is_closed /\ last'.op = "close"

\* C10 as stated: close() on an already closed connection returns 0, makes no
\* underlying close call and changes no field of the facade.
C10_ClosedCloseNoOp ==
    [][ClosedClose =>
          /\ last'.ret = 0
          /\ ~last'.called
          /\ UNCHANGED <<kept, _libvirtconn, _uri, _fetch_cache>>]_vars

\* C10: close() on an already closed connection returns 0, makes no underlying
\* close call and leaves the handle absent and every other field as it was,
\* except that the address field ends cleared and the object-list cache empty.
C10_ClosedCloseClears ==
    [][ClosedClose =>
          /\ last'.ret = 0
          /\ ~last'.called
          /\ UNCHANGED <<kept, _libvirtconn>>
          /\ _uri' = NoneStr
          /\ _fetch_cache' = EmptyCache]_vars

C10_Witness ==
    /\ last.op = "close"
    /\ ~last.was_open
    /\ last.before.uri # NoneStr
    /\ _uri = NoneStr

\* The fetches whose whole enumeration is one remote listing.
ListingOps == {"fetch_all_domains", "fetch_all_pools", "fetch_all_nodedevs"}

\* C11: a fetch_all of domains, pools or node devices that finds its category
\* uncached enumerates it; when the enumeration fails the call fails, the
\* category stays absent (so the next call enumerates again) and the whole
\* cache, the other categories included, is as it was before the call.
C11_ListingFailure ==
    (last.op \in ListingOps /\ ~last.hooked) =>
        /\ last.key \notin DOMAIN last.before => last.key \in last.enum
        /\ last.raised =>
              /\ last.key \in last.enum
              /\ last.val = <<>>
              /\ last.key \notin DOMAIN _fetch_cache
              /\ _fetch_cache = last.before
        /\ \A k \in FetchKeys \ {last.key} :
              /\ k \in DOMAIN _fetch_cache <=> k \in DOMAIN last.before
              /\ k \in DOMAIN _fetch_cache => _fetch_cache[k] = last.before[k]

C11_Witness ==
    /\ last.op = "fetch_all_pools"
    /\ last.raised
    /\ last.conn
    /\ _FETCH_KEY_DOMAINS \in DOMAIN last.before
    /\ last.before[_FETCH_KEY_DOMAINS] # <<>>

RECURSIVE VolsOfPools(_, _, _)
\* The volumes a pool list is to yield: pool by pool in list order, each pool's
\* loadable volumes, none for a pool that is not running.
VolsOfPools(pools, st, failing) ==
    IF pools = <<>>
    THEN <<>>
    ELSE NewPoolVols(Head(pools), st[Head(pools)], failing)
            \o VolsOfPools(Tail(pools), st, failing)

\* C12: a fetch_all of volumes that finds them uncached, gets its pool list and
\* finds every pool of it on the remote returns without error, and caches,
\* exactly the loadable volumes of the running pools of that list: a pool that
\* is not running adds nothing and a volume whose description fails is left
\* out, the others kept.
C12_VolsOfRunningPools ==
    (/\ last.op = "fetch_all_vols"
     /\ ~last.hooked
     /\ _FETCH_KEY_VOLS \notin DOMAIN last.before
     /\ last.seen.listed
     /\ last.conn
     /\ \A p \in Range(last.seen.pools) : last.seen.st[p] # "gone") =>
        /\ ~last.raised
        /\ last.val = VolsOfPools(last.seen.pools, last.seen.st, last.seen.failing)
        /\ _FETCH_KEY_VOLS \in DOMAIN _fetch_cache
        /\ _fetch_cache[_FETCH_KEY_VOLS] = last.val
        /\ _FETCH_KEY_VOLS \in last.enum

C12_Witness ==
    /\ last.op = "fetch_all_vols"
    /\ ~last.raised
    /\ _FETCH_KEY_VOLS \notin DOMAIN last.before
    /\ Len(last.seen.pools) = 2
    /\ last.seen.st[1] = "running"
    /\ last.seen.st[2] = "inactive"
    /\ last.seen.failing = {<<1, 1>>}
    /\ last.val = << <<1, 2>> >>

\* C13: a fetch_all of a category whose override callback is registered returns
\* the callback's list, without error, without any remote enumeration and
\* with the whole cache left as it was, whatever the cache holds for the
\* category; a cache_new_pool with the insertion override registered leaves
\* the whole cache as it was.
C13_OverrideBypassesCache ==
    /\ (IsFetch /\ last.hooked) =>
          /\ ~last.raised
          /\ last.val = last.seen.cb
          /\ last.enum = {}
          /\ _fetch_cache = last.before
    /\ (last.op = "cache_new_pool" /\ last.hooked) =>
          /\ ~last.raised
          /\ _fetch_cache = last.before

C13_Witness ==
    /\ last.op = "fetch_all_pools"
    /\ last.hooked
    /\ _FETCH_KEY_POOLS \in DOMAIN last.before
    /\ last.before[_FETCH_KEY_POOLS] # last.val

\* What invalidate_caps is to leave alone: everything but the snapshot.
besides_caps == <<identity, _uri, _uriobj, _libvirtconn, _daemon_version, _conn_version,
                  _support_cache, _fetch_cache, cbs>>

\* C14: invalidate_caps() leaves the snapshot absent, whether or not there was
\* one, and changes nothing else: not the memoized versions, the object-list
\* cache, the support cache or the live handle.
C14_InvalidateCapsOnly ==
    [][last'.op = "invalidate_caps" => (~_caps' /\ UNCHANGED besides_caps)]_vars

C14_Witness ==
    /\ last.op = "invalidate_caps"
    /\ last.had
    /\ ~_caps
    /\ is_open
    /\ _daemon_version # NoneVer
    /\ _conn_version > 0
    /\ DOMAIN _support_cache # {}
    /\ _FETCH_KEY_POOLS \in DOMAIN _fetch_cache
    /\ _fetch_cache[_FETCH_KEY_POOLS] # <<>>

\* C15: between two invalidate_caps() calls, or from construction to the
\* first, the capability document is obtained from the live handle at most
\* once, whatever else is called in between: once the snapshot is held no read
\* calls the handle, and only a read that raised leaves no snapshot.
C15_OneCapsFetchPerCycle ==
    /\ caps_calls.fetched <= 1
    /\ caps_calls.fetched = 1 <=> _caps
    /\ last.op = "_get_caps" =>
          /\ last.had => (~last.called /\ ~last.raised /\ _caps)
          /\ last.called => ~last.had
          /\ last.raised <=> ~_caps

C15_Witness ==
    /\ last.op = "_get_caps"
    /\ last.had
    /\ caps_calls.fetched = 1
    /\ caps_calls.calls = 2
    /\ _FETCH_KEY_POOLS \in DOMAIN _fetch_cache

\* C16: after a close() the resolver-derived flags are what they were before
\* it, and the uri property reports the address it reported just before it.
C16_ClosePreservesIdentity ==
    last.op = "close" =>
        /\ flags = last.before.flags
        /\ _get_uri = last.before.reported

\* C20: whenever the connection is open, getURI() returns an address, never
\* None.
C20_OpenHasURI == is_open => getURI # NoneStr

\* C17 as stated: whenever the live handle is absent the object-list cache
\* holds no category.
C17_ClosedCacheEmpty == is_closed => _fetch_cache = EmptyCache

\* C17: whenever the live handle is absent the object-list cache holds no
\* category other than volumes, and it holds volumes only as an empty list and
\* only if the pool override has been registered since the last close().
C17_ClosedCacheHoldsNoData ==
    is_closed =>
        /\ \A k \in DOMAIN _fetch_cache : k = _FETCH_KEY_VOLS /\ _fetch_cache[k] = <<>>
        /\ _fetch_cache # EmptyCache => pool_override

C17_Witness ==
    /\ is_closed
    /\ since_close.had
    /\ cbs # {}
    /\ IsFetch
    /\ last.raised
    /\ _fetch_cache = EmptyCache

RECURSIVE Count(_, _)
Count(q, e) ==
    IF q = <<>> THEN 0
    ELSE (IF Head(q) = e THEN 1 ELSE 0) + Count(Tail(q), e)

\* The two lists hold the same elements, each the same number of times.
SameElements(a, b) == \A e \in Range(a) \cup Range(b) : Count(a, e) = Count(b, e)

\* A cache whose pool and volume lists are a snapshot of one remote state: the
\* pools as the remote lists them, and volumes of listed pools only, each once.
Snapshot(cache) ==
    /\ _FETCH_KEY_POOLS \in DOMAIN cache
    /\ _FETCH_KEY_VOLS \in DOMAIN cache
    /\ cache[_FETCH_KEY_POOLS] = Listing(Len(cache[_FETCH_KEY_POOLS]))
    /\ \A v \in Range(cache[_FETCH_KEY_VOLS]) :
          /\ v[1] \in Range(cache[_FETCH_KEY_POOLS])
          /\ Count(cache[_FETCH_KEY_VOLS], v) = 1

\* What invalidating and fetching pools and volumes again returns, on the remote
\* the snapshot was taken from once it answers for `pool` with state st and the
\* unloadable volumes `failing`: the pools it then lists, and for each other
\* pool the volumes the snapshot found.
Refetch(cache, pool, st, failing) ==
    LET n == IF pool > Len(cache[_FETCH_KEY_POOLS])
             THEN Len(cache[_FETCH_KEY_POOLS]) + 1
             ELSE Len(cache[_FETCH_KEY_POOLS])
        found == Range(cache[_FETCH_KEY_VOLS])
        states == [q \in Pools |->
                      IF q = pool THEN st
                      ELSE IF \E v \in found : v[1] = q THEN "running"
                           ELSE "inactive"]
        unloadable == failing \cup
                        {v \in UNION {Range(VolsOf(q)) : q \in Pools \ {pool}} :
                            v \notin found}
        pc == fetch_all_pools_op(EmptyCache, {}, TRUE, TRUE, n, <<>>)
        vc == fetch_all_vols_op(pc.cache, {}, TRUE, pc, states, unloadable, <<>>)
    IN  [pools |-> pc.val, vols |-> vc.val]

\* A cache_new_pool(p) that returned, with no insertion override, on a snapshot
\* of pools and volumes, for a pool p the remote lists first after the
\* snapshot's pools or lists already.
Inserted ==
    /\ last.op = "cache_new_pool"
    /\ ~last.hooked
    /\ ~last.raised
    /\ Snapshot(last.before)
    /\ last.pool <= Len(last.before[_FETCH_KEY_POOLS]) + 1

\* C19 as stated: after such an insertion, whether or not p was already in the
\* cached pool list, the cached pool and volume lists hold the same elements,
\* as multisets, as a refetch of both categories would return.
C19_InsertionEqualsRefetch ==
    Inserted =>
        LET again == Refetch(last.before, last.pool, last.st, last.failing)
        IN  /\ SameElements(_fetch_cache[_FETCH_KEY_POOLS], again.pools)
            /\ SameElements(_fetch_cache[_FETCH_KEY_VOLS], again.vols)

\* C19: after such an insertion of a pool p that was not in the cached pool
\* list, the cached pool and volume lists hold the same elements, as multisets,
\* as a refetch of both categories would return; for a pool p that was already
\* in the list, the cached pool list holds p once more than the refetched one.
C19_NewPoolInsertionEqualsRefetch ==
    Inserted =>
        LET again == Refetch(last.before, last.pool, last.st, last.failing)
        IN  IF last.pool \notin Range(last.before[_FETCH_KEY_POOLS])
            THEN /\ SameElements(_fetch_cache[_FETCH_KEY_POOLS], again.pools)
                 /\ SameElements(_fetch_cache[_FETCH_KEY_VOLS], again.vols)
            ELSE /\ Count(_fetch_cache[_FETCH_KEY_POOLS], last.pool)
                        = Count(again.pools, last.pool) + 1
                 /\ ~SameElements(_fetch_cache[_FETCH_KEY_POOLS], again.pools)

C19_Witness ==
    /\ Inserted
    /\ last.pool \notin Range(last.before[_FETCH_KEY_POOLS])
    /\ last.before[_FETCH_KEY_VOLS] # <<>>
    /\ _fetch_cache[_FETCH_KEY_VOLS] # last.before[_FETCH_KEY_VOLS]
====
